---- MODULE Spec2Model ----
(***************************************************************************)
(* Payment webhook reconciliation and subscription lifecycle of            *)
(* betterpickzbot: src/main.py (btcpay_webhook, the idempotency ledger,    *)
(* supabase_query, send_telegram_message) and src/bot.py (validation,      *)
(* signature verification, create_or_extend_subscription, the cache).      *)
(*                                                                         *)
(* Units: money is in cents, time is in days.  A request handler is a      *)
(* thread of the WSGI server; its steps are the calls it makes to the      *)
(* store, the ledger, the cache and the messaging transport, in the order  *)
(* of the source.  Every external call can fail the way the code allows.   *)
(***************************************************************************)
EXTENDS Integers, Sequences, FiniteSets, Bags, TLC

\* ------------------------------------------------------------------ bounds
NumThreads == 2
MaxDeliveries == 2
MaxSeqDeliveries == 2
MaxGateDeliveries == 2
MaxTicks == 1
MaxFaults == 1
\* the 60-second windows of a rate-limit key that elapse
MaxWindows == 2

\* ------------------------------------------------------- program constants
\* bot.py:35 SUBSCRIPTION_PRICE = 10.00 (cents)
SUBSCRIPTION_PRICE == 1000
\* bot.py:38 PROCESSING_FEE_PERCENT = 5.0
PROCESSING_FEE_PERCENT == 5
\* bot.py:36 SUBSCRIPTION_DAYS = 30
SUBSCRIPTION_DAYS == 30
\* bot.py:54 MIN_SUBSCRIPTION_PRICE = 1.0 (cents)
MIN_SUBSCRIPTION_PRICE == 100
\* bot.py:55 MAX_SUBSCRIPTION_PRICE = 10000.0 (cents)
MAX_SUBSCRIPTION_PRICE == 1000000
\* bot.py:52 commands per minute
RATE_LIMIT_COMMANDS == 10
\* main.py:92
WEBHOOK_CACHE_SIZE == 1000
\* main.py:109 cache.setex(key, 86400, "1"): one day
MARKER_TTL == 1
\* bot.py:113 upper limit of a telegram id, 10**15, in units of 10**6 (the
\* model's user ids are in the same unit; TLC integers are 32 bits wide)
TELEGRAM_ID_LIMIT == 1000000000
\* main.py:237 sanitize_string(invoice_id, 100)
INVOICE_ID_MAXLEN == 100
\* main.py:165
max_retries == 3
\* the day on which the model starts
Day0 == 5

Threads == 1..NumThreads

\* ------------------------------------------------------------ pure helpers
Max(a, b) == IF a >= b THEN a ELSE b

\* Python round(x, 2) of n/d cents: nearest, ties to even.
RoundHalfEven(n, d) ==
  LET q == n \div d
      r == n % d
  IN  IF 2 * r < d THEN q
      ELSE IF 2 * r > d THEN q + 1
      ELSE IF q % 2 = 0 THEN q ELSE q + 1

\* mutant: the processing fee is left out
calculate_total_price_NoFee == SUBSCRIPTION_PRICE

\* bot.py calculate_total_price
calculate_total_price ==
  LET base_price == SUBSCRIPTION_PRICE
      fee == RoundHalfEven(base_price * PROCESSING_FEE_PERCENT, 100)
  IN  base_price + fee

TOTAL_SUBSCRIPTION_PRICE == calculate_total_price

\* Characters of externally supplied strings: printable ones, a blank and a
\* control character.
NUL == "\\0"
BLANK == " "
IsPrintable(c) == c \notin {NUL, BLANK}
IsSpace(c) == c = BLANK

RECURSIVE LStrip(_)
LStrip(s) == IF s # <<>> /\ IsSpace(Head(s)) THEN LStrip(Tail(s)) ELSE s

RECURSIVE RStrip(_)
RStrip(s) ==
  IF s # <<>> /\ IsSpace(s[Len(s)]) THEN RStrip(SubSeq(s, 1, Len(s) - 1)) ELSE s

\* A JSON value of the payload: kind "absent" (missing, null or empty),
\* "other" (a truthy non-string) or "str" (a non-empty string, chars).
JsonAbsent == [kind |-> "absent", chars |-> <<>>]
JsonOther == [kind |-> "other", chars |-> <<>>]
JsonStr(cs) == [kind |-> "str", chars |-> cs]

\* bot.py sanitize_string: a non-string gives "", otherwise keep the
\* printable or whitespace characters, truncate, strip.
sanitize_string(value, max_length) ==
  IF value.kind # "str" THEN <<>>
  ELSE LET kept == SelectSeq(value.chars, LAMBDA c : IsPrintable(c) \/ IsSpace(c))
           cut == SubSeq(kept, 1, IF Len(kept) < max_length THEN Len(kept) ELSE max_length)
       IN  RStrip(LStrip(cut))

\* bot.py validate_telegram_id: int(telegram_id) in (0, 10**15).  The
\* user_id column holds integers.
validate_telegram_id(telegram_id) ==
  0 < telegram_id /\ telegram_id < TELEGRAM_ID_LIMIT

\* mutant: the upper limit is not tested
validate_amount_NoMax(amount) == MIN_SUBSCRIPTION_PRICE <= amount

\* bot.py validate_amount
validate_amount(amount) ==
  MIN_SUBSCRIPTION_PRICE <= amount /\ amount <= MAX_SUBSCRIPTION_PRICE

\* mutant: the amount is compared with the minimum price instead of the total
IsInsufficient_MinPrice(amount) == amount < MIN_SUBSCRIPTION_PRICE

\* main.py:279 the amount gate
IsInsufficient(amount) == amount < TOTAL_SUBSCRIPTION_PRICE

\* HMAC-SHA256 hexdigest, idealised as collision free.
Hmac(key, body) == [tok |-> "digest", key |-> key, body |-> body]

NoSecret == ""

\* mutant: the configuration check is dropped
SecretMissing_Never(s) == FALSE

\* Truthiness test `not BTCPAY_WEBHOOK_SECRET` (None or "").
SecretMissing(s) == s = NoSecret

Sha256Prefix == [tok |-> "sha256="]

\* mutant: any non-empty signature is accepted
verify_btcpay_webhook_NoCompare(secretKey, payload, signature) ==
  ~(SecretMissing(secretKey) \/ signature = <<>>)

\* a character outside ASCII in a header
NonAscii == [tok |-> "non_ascii"]

\* hmac.compare_digest on two str (bot.py:142): a TypeError when one of
\* them holds a non-ASCII character, otherwise their equality
compare_digest(a, b) ==
  IF \E k \in 1..Len(b) : b[k] = NonAscii THEN "TypeError"
  ELSE IF a = b THEN "True" ELSE "False"

\* mutant: every leading "sha256=" is stripped
verify_btcpay_webhook_StripAll(secretKey, payload, signature) ==
  IF SecretMissing(secretKey) \/ signature = <<>> THEN FALSE
  ELSE signature[Len(signature)] = Hmac(secretKey, payload)
       /\ \A k \in 1..(Len(signature) - 1) : signature[k] = Sha256Prefix

\* bot.py verify_btcpay_webhook.  A signature header is a sequence of
\* tokens: "sha256=" prefixes followed by a digest; <<>> is the empty header.
\* The TypeError of compare_digest is caught and answered False (bot.py:144).
verify_btcpay_webhook(secretKey, payload, signature) ==
  IF SecretMissing(secretKey) \/ signature = <<>> THEN FALSE
  ELSE LET expected_sig == Hmac(secretKey, payload)
           stripped == IF Head(signature) = Sha256Prefix THEN Tail(signature) ELSE signature
       IN  compare_digest(<<expected_sig>>, stripped) = "True"

\* ---------------------------------------------------------------- domains
InvA == <<"a">>
InvB == <<"b">>
Invoices == {InvA, InvB}
\* an entry of the in-process set for an invoice outside Invoices
Filler == <<"*">>

UserIds == {1, 2}
\* mutant: expiry events are handled like payments
RelevantEvents_Expired ==
  {"InvoiceSettled", "InvoiceProcessing", "InvoiceReceivedPayment", "InvoiceExpired"}

\* the user who opens invoices in the model
Payers == {1}
RelevantEvents == {"InvoiceSettled", "InvoiceProcessing", "InvoiceReceivedPayment"}
EventTypes == {"InvoiceSettled", "InvoiceExpired"}

\* the key the payment processor signs with
ProcessorKey == "k"

\* Request bodies: invalid JSON, a JSON value that is not a (non-empty)
\* object, objects lacking a field, and events.
Body(shape, type, invoiceId) == [shape |-> shape, type |-> type, invoiceId |-> invoiceId]
RawInvoiceIds == {JsonStr(InvA), JsonStr(InvB), JsonStr(<<BLANK, "a", NUL>>), JsonOther}
Bodies ==
  {Body("malformed", "", JsonAbsent), Body("notdict", "", JsonAbsent),
   Body("dict", "", JsonStr(InvA)), Body("dict", "InvoiceSettled", JsonAbsent)}
  \cup {Body("dict", "InvoiceSettled", id) : id \in RawInvoiceIds}
  \cup {Body("dict", ty, JsonStr(InvA)) : ty \in EventTypes}

SignaturesFor(b) ==
  {<<>>, <<Hmac(ProcessorKey, b)>>, <<Sha256Prefix, Hmac(ProcessorKey, b)>>,
   <<Hmac(NoSecret, b)>>}

Requests == UNION {{[sig |-> sg, body |-> b] : sg \in SignaturesFor(b)} : b \in Bodies}

\* the notifications the payment processor sends for the modelled invoices
Notification(i) ==
  LET b == Body("dict", "InvoiceSettled", JsonStr(i))
  IN  [sig |-> <<Sha256Prefix, Hmac(ProcessorKey, b)>>, body |-> b]
Notifications == {Notification(i) : i \in Invoices}
NoReq == [sig |-> <<>>, body |-> Body("none", "", JsonAbsent)]

\* payments table rows, keyed by btcpay_invoice_id
NoRow == [user_id |-> 0, amount |-> 0, status |-> "absent",
          paid_at |-> 0, subscription_id |-> 0]
PaymentRow(u, a) == [user_id |-> u, amount |-> a, status |-> "pending",
                     paid_at |-> 0, subscription_id |-> 0]

\* subscriptions table rows; the row id is the index in subs
SubRow(u, st, en, amt) == [user_id |-> u, status |-> "active", plan_type |-> "monthly",
                           amount_paid |-> amt, start_date |-> st, end_date |-> en,
                           updated_at |-> 0]

\* cached subscription snapshots
NoSnap == [id |-> 0, end_date |-> 0]

\* ------------------------------------------------------------------ state
VARIABLES
  secret,              \* BTCPAY_WEBHOOK_SECRET
  cacheOn,             \* whether `cache` (Redis) was initialised
  subs0,               \* the subscriptions table when the service started
  now,                 \* the clock, in days
  payments,            \* payments table
  subs,                \* subscriptions table
  actlog,              \* activity_logs table (bag of entries)
  redis,               \* webhook_processed:<id> keys: expiry day, 0 when unset
  processed_webhooks,  \* the in-process set: modelled ids and count of others
  subCache,            \* sub:<user> keys
  outbox,              \* messages handed to send_telegram_message (bag), each
                       \* with whether the transport accepted it
  th,                  \* per request thread: position and locals
  last,                \* the response returned most recently, with its request
  answered,            \* number of responses returned
  deliveries,          \* number of requests received
  faults,              \* number of external calls that failed
  hist,                \* per invoice, outcomes of its deliveries in order of answer
  subMut,              \* per invoice, confirmed subscription writes made for it
  statusWrites,        \* per invoice, applied payment status updates
  snd,                 \* a call of send_telegram_message: position and locals
  sq,                  \* the latest call of supabase_query: arguments and result
  hl,                  \* the latest answer of the health endpoint
  vr,                  \* the latest call of verify_btcpay_webhook: arguments and result
  stq,                 \* a call of get_active_subscription: position and locals
  rl                   \* the rate-limit key of a user and a call of rate_limit_check

vars == <<secret, cacheOn, subs0, now, payments, subs, actlog, redis, processed_webhooks,
          subCache, outbox, th, last, answered, deliveries, faults, hist, subMut,
          statusWrites, snd, sq, hl, vr, stq, rl>>

config == <<secret, cacheOn, subs0>>
store == <<payments, subs, actlog>>
ledger == <<redis, processed_webhooks>>
ghosts == <<hist, subMut, statusWrites>>
calls == <<snd, sq, hl, vr, stq, rl>>

Idle == [pc |-> "idle", req |-> NoReq, inv |-> <<>>, user |-> 0, amount |-> 0,
         sub |-> 0, end |-> 0, rdNow |-> 0, patched |-> FALSE]

\* send_telegram_message before it is called
SendIdle == [pc |-> "idle", to |-> 0, text |-> "none", attempt |-> 0,
             tried |-> <<>>, slept |-> <<>>, result |-> "none"]

\* supabase_query before it is called
SqIdle == [table |-> "", method |-> "", filters |-> "none", data |-> "none",
          outcome |-> "none", result |-> "none", built |-> FALSE,
          applied |-> "none", executed |-> FALSE]

\* the health endpoint before it is called
HlIdle == [db |-> "none", processor |-> "none", code |-> 0,
          body |-> [status |-> "none", database |-> "none", btcpay |-> "none",
                    cache |-> "none"]]

\* verify_btcpay_webhook before it is called
VrIdle == [called |-> FALSE, payload |-> Body("none", "", JsonAbsent), signature |-> <<>>,
           result |-> FALSE]

\* get_active_subscription before it is called
StqIdle == [pc |-> "idle", user |-> 0, cached |-> FALSE, failed |-> FALSE,
           row |-> NoSnap, result |-> NoSnap]

\* the ratelimit:<action>:<user> key (val 0: no key) and rate_limit_check
\* before it is called
RlIdle == [pc |-> "idle", count |-> 0, val |-> 0, expires |-> FALSE,
          result |-> "none", windows |-> 0]

\* No request is being handled.
Quiet == \A t \in Threads : th[t].pc = "idle"

\* ---------------------------------------------------------------- responses
Response(code, status, reason, outcome) ==
  [code |-> code, status |-> status, reason |-> reason, outcome |-> outcome,
   amount_paid |-> 0, amount_required |-> 0]

\* main.py:465-475: abort(n) raises an HTTPException, which is an Exception
\* and is caught by the handler's own `except Exception`.
ExceptException(outcome) == Response(500, "error", "internal", outcome)

NoResponse == Response(0, "none", "none", "none")

\* Initial contents of the store: the payment row of invoice InvA, in the
\* states a row can be found in, invoice InvB opened by the bot for the
\* total price, and the subscriptions table.
WithA(row) == [i \in Invoices |-> IF i = InvA THEN row
                                  ELSE PaymentRow(1, TOTAL_SUBSCRIPTION_PRICE)]
Lapsed == <<SubRow(2, 0, 10, 1050), SubRow(1, 0, 3, 1050)>>
Running == <<SubRow(1, 0, 20, 1050)>>
InitStores ==
  {<<WithA(PaymentRow(1, 1100)), sb>> : sb \in {<<>>, Running}}
  \cup {<<WithA(PaymentRow(1, 1051)), Lapsed>>,
        <<WithA(NoRow), <<>>>>, <<WithA(PaymentRow(1, 900)), Running>>,
        <<WithA(PaymentRow(0, 1050)), <<>>>>, <<WithA(PaymentRow(1, 50)), <<>>>>,
        <<WithA(PaymentRow(1, MAX_SUBSCRIPTION_PRICE + 1)), <<>>>>}

\* The ledger's modes: a cache; none and an empty in-process set; none and
\* a set that already holds WEBHOOK_CACHE_SIZE other invoice ids.
InitLedgers == {<<TRUE, 0>>, <<FALSE, 0>>, <<FALSE, WEBHOOK_CACHE_SIZE>>}

\* The deployments explored: every store with a cache, and the two stores
\* without subscriptions' history at stake with each of the cacheless modes.
InitScenarios ==
  {<<l, st>> \in InitLedgers \X InitStores :
     l[1] \/ st \in {<<WithA(PaymentRow(1, 1100)), <<>>>>,
                     <<WithA(PaymentRow(1, 900)), Running>>}}

InitCommon ==
  /\ now = Day0
  /\ subs0 = subs
  /\ actlog = EmptyBag
  /\ redis = [i \in Invoices |-> 0]
  /\ subCache = [u \in UserIds |-> NoSnap]
  /\ outbox = EmptyBag
  /\ th = [t \in Threads |-> Idle]
  /\ last = [req |-> NoReq, resp |-> NoResponse]
  /\ answered = 0
  /\ deliveries = 0
  /\ faults = 0
  /\ hist = [i \in Invoices |-> <<>>]
  /\ subMut = [i \in Invoices |-> 0]
  /\ statusWrites = [i \in Invoices |-> 0]
  /\ snd = SendIdle
  /\ sq = SqIdle
  /\ hl = HlIdle
  /\ vr = VrIdle
  /\ stq = StqIdle
  /\ rl = RlIdle

\* The service as deployed (main.py main() requires the secret).
Init ==
  /\ secret = ProcessorKey
  /\ \E sc \in InitScenarios :
       /\ cacheOn = sc[1][1]
       /\ processed_webhooks = [ids |-> {}, others |-> sc[1][2]]
       /\ payments = sc[2][1]
       /\ subs = sc[2][2]
  /\ InitCommon

\* The WSGI app on its own, with or without a secret in the environment,
\* with or without a cache.
InitGate ==
  /\ secret \in {NoSecret, ProcessorKey}
  /\ cacheOn \in BOOLEAN
  /\ payments = WithA(PaymentRow(1, 900))
  /\ subs = <<>>
  /\ processed_webhooks = [ids |-> {}, others |-> 0]
  /\ InitCommon

\* Outcomes an external call can have: TRUE (it worked) or, while the fault
\* budget lasts, FALSE (it raised or returned nothing).
CallOutcomes == IF faults < MaxFaults THEN BOOLEAN ELSE {TRUE}
Failed(ok) == IF ok THEN 0 ELSE 1

\* ------------------------------------------------------ idempotency ledger
\* mutant: the cache test is `exists(key) >= 0`
is_webhook_processed_Ge0(invoice_id, cacheOk) ==
  IF cacheOn /\ cacheOk THEN TRUE ELSE invoice_id \in processed_webhooks.ids

\* main.py is_webhook_processed.  With a cache, cache.exists answers, unless
\* the call raises (cacheOk = FALSE) and the in-process set is consulted.
is_webhook_processed(invoice_id, cacheOk) ==
  IF cacheOn /\ cacheOk
  THEN invoice_id \in Invoices /\ redis[invoice_id] > now
  ELSE invoice_id \in processed_webhooks.ids

SetSize(pw) == Cardinality(pw.ids) + pw.others

\* Python set.pop(): removes an arbitrary element.
SetPop(pw) ==
  {[pw EXCEPT !.ids = pw.ids \ {v}] : v \in pw.ids}
  \cup (IF pw.others > 0 THEN {[pw EXCEPT !.others = pw.others - 1]} ELSE {})

\* main.py mark_webhook_processed.  With a cache, cache.setex records the key
\* for 24 hours, unless the call raises (cacheOk = FALSE); then, or without a
\* cache, the id goes into the in-process set.
mark_webhook_processed(invoice_id, cacheOk) ==
  IF cacheOn /\ cacheOk
  THEN /\ redis' = [redis EXCEPT ![invoice_id] = now + MARKER_TTL]
       /\ UNCHANGED processed_webhooks
  ELSE /\ UNCHANGED redis
       /\ LET added == [processed_webhooks EXCEPT !.ids = @ \cup {invoice_id}]
          IN  IF SetSize(added) > WEBHOOK_CACHE_SIZE
              THEN processed_webhooks' \in SetPop(added)
              ELSE processed_webhooks' = added

\* Outcomes of a call to the cache: it cannot fail when there is none.
CacheOutcomes == IF cacheOn THEN CallOutcomes ELSE {TRUE}

\* ------------------------------------------------------------- the handler
\* Returning a response: recorded with the request it answers.
Respond(t, resp) ==
  /\ last' = [req |-> th[t].req, resp |-> resp]
  /\ answered' = answered + 1
  /\ hist' = IF th[t].inv \in Invoices
             THEN [hist EXCEPT ![th[t].inv] = Append(@, resp.outcome)]
             ELSE hist
  /\ th' = [th EXCEPT ![t] = Idle]

\* main.py:212-245: the checks made before the first access to the ledger.
Gate(r) ==
  LET reject(resp) == [pass |-> FALSE, resp |-> resp, inv |-> <<>>]
  IN  IF SecretMissing(secret) THEN reject(ExceptException("config_error"))
      ELSE IF ~verify_btcpay_webhook(secret, r.body, r.sig)
        THEN reject(ExceptException("bad_signature"))
      ELSE IF r.body.shape = "malformed" THEN reject(ExceptException("bad_json"))
      ELSE IF r.body.shape # "dict" THEN reject(ExceptException("invalid_payload"))
      ELSE IF r.body.type = "" \/ r.body.invoiceId.kind = "absent"
        THEN reject(ExceptException("missing_fields"))
      ELSE IF r.body.type \notin RelevantEvents
        THEN reject(Response(200, "ignored", "not_relevant", "ignored"))
      ELSE [pass |-> TRUE, resp |-> NoResponse,
            inv |-> sanitize_string(r.body.invoiceId, INVOICE_ID_MAXLEN)]

\* main.py:211-245: a request arrives at an idle thread and runs up to the
\* idempotency check.
Handle(t, r) ==
  /\ th[t].pc = "idle"
  /\ deliveries' = deliveries + 1
  /\ LET g == Gate(r)
     IN  IF g.pass
         THEN /\ th' = [th EXCEPT ![t] = [Idle EXCEPT !.pc = "idem", !.req = r, !.inv = g.inv]]
              /\ UNCHANGED <<last, answered, hist>>
         ELSE /\ last' = [req |-> r, resp |-> g.resp]
              /\ answered' = answered + 1
              /\ UNCHANGED <<th, hist>>
  /\ UNCHANGED <<config, calls, now, store, ledger, subCache, outbox, faults, subMut, statusWrites>>

\* Deliveries of the processor's notifications to the server's threads; a
\* request is served by the first idle thread.
Receive(t, r) ==
  /\ deliveries < MaxDeliveries
  /\ \A o \in Threads : o < t => th[o].pc # "idle"
  /\ Handle(t, r)

\* Deliveries one after another: each completes before the next starts.
ReceiveSeq(r) ==
  /\ deliveries < MaxSeqDeliveries
  /\ Quiet
  /\ Handle(1, r)

\* Arbitrary requests from the network.
ReceiveAny(r) ==
  /\ deliveries < MaxGateDeliveries
  /\ Handle(1, r)

\* main.py:247-250
IdemCheck(t) ==
  /\ th[t].pc = "idem"
  /\ \E cacheOk \in CacheOutcomes :
       /\ faults' = faults + Failed(cacheOk)
       /\ IF is_webhook_processed(th[t].inv, cacheOk)
          THEN Respond(t, Response(200, "already_processed", "", "already_processed"))
          ELSE /\ th' = [th EXCEPT ![t].pc = "lookup"]
               /\ UNCHANGED <<last, answered, hist>>
  /\ UNCHANGED <<config, calls, now, store, ledger, subCache, outbox, deliveries, subMut, statusWrites>>

\* main.py supabase_query GET on payments: the row, or nothing when there is
\* none or the query raises (ok = FALSE).
QueryPayment(invoice_id, ok) ==
  IF ok /\ invoice_id \in Invoices THEN payments[invoice_id] ELSE NoRow

\* main.py:252-279: lookup, validation of the record and the amount gate.
Lookup(t) ==
  /\ th[t].pc = "lookup"
  /\ \E ok \in CallOutcomes :
       /\ faults' = faults + Failed(ok)
       /\ LET payment == QueryPayment(th[t].inv, ok)
          IN  IF payment = NoRow
              THEN Respond(t, ExceptException("not_found"))
              ELSE IF ~validate_telegram_id(payment.user_id)
              THEN Respond(t, ExceptException("invalid_user"))
              ELSE IF ~validate_amount(payment.amount)
              THEN Respond(t, ExceptException("invalid_amount"))
              ELSE /\ th' = [th EXCEPT ![t].pc = IF IsInsufficient(payment.amount)
                                                 THEN "u_mark" ELSE "s_mark",
                                       ![t].user = payment.user_id,
                                       ![t].amount = payment.amount]
                   /\ UNCHANGED <<last, answered, hist>>
  /\ UNCHANGED <<config, calls, now, store, ledger, subCache, outbox, deliveries, subMut, statusWrites>>

\* mutant: the update writes the status of the other path
PatchStatus_Paid(i, status, ok) ==
  IF ok
  THEN /\ payments' = [payments EXCEPT ![i].status = "paid", ![i].paid_at = now]
       /\ statusWrites' = [statusWrites EXCEPT ![i] = @ + 1]
  ELSE UNCHANGED <<payments, statusWrites>>

\* mutant: an update of a row that left pending puts it back
PatchStatus_Reopen(i, status, ok) ==
  IF ok
  THEN /\ payments' = [payments EXCEPT
                         ![i].status = IF @ = "pending" THEN status ELSE "pending",
                         ![i].paid_at = now]
       /\ statusWrites' = [statusWrites EXCEPT ![i] = @ + 1]
  ELSE UNCHANGED <<payments, statusWrites>>

\* main.py supabase_query PATCH of the payment status: applied, or None
\* when the query raises (the row is then left as it was).
PatchStatus(i, status, ok) ==
  IF ok
  THEN /\ payments' = [payments EXCEPT ![i].status = status, ![i].paid_at = now]
       /\ statusWrites' = [statusWrites EXCEPT ![i] = @ + 1]
  ELSE UNCHANGED <<payments, statusWrites>>

\* main.py send_telegram_message: TRUE with the message accepted by the
\* transport, or FALSE for an invalid id or after the retries.
Send(msg, ok) ==
  outbox' = outbox (+) SetToBag({[msg |-> msg, delivered |-> ok /\ validate_telegram_id(msg.to)]})

MessageKinds == {"confirmation", "shortfall", "manual_fix"}
Message(to, kind, inv, paid, diff, end) ==
  [to |-> to, kind |-> kind, inv |-> inv, paid |-> paid,
   required |-> TOTAL_SUBSCRIPTION_PRICE, diff |-> diff, end |-> end]

\* bot.py log_activity: the insert is applied, or fails silently.
LogActivity(user, action, inv, amount, diff, end, ok) ==
  actlog' = IF ok /\ validate_telegram_id(user)
            THEN actlog (+) SetToBag({[user_id |-> user, action |-> action, invoice_id |-> inv,
                                       amount |-> amount, diff |-> diff, end_date |-> end]})
            ELSE actlog

\* main.py:285-286
UMark(t) ==
  /\ th[t].pc = "u_mark"
  /\ \E cacheOk \in CacheOutcomes :
       /\ faults' = faults + Failed(cacheOk)
       /\ mark_webhook_processed(th[t].inv, cacheOk)
  /\ th' = [th EXCEPT ![t].pc = "u_patch"]
  /\ UNCHANGED <<config, calls, now, store, subCache, outbox, last, answered, deliveries, ghosts>>

\* main.py:288-296
UPatch(t) ==
  /\ th[t].pc = "u_patch"
  /\ \E ok \in CallOutcomes :
       /\ faults' = faults + Failed(ok)
       /\ PatchStatus(th[t].inv, "insufficient_amount", ok)
       /\ th' = [th EXCEPT ![t].pc = "u_notify", ![t].patched = ok]
  /\ UNCHANGED <<config, calls, now, subs, actlog, ledger, subCache, outbox, last, answered,
                 deliveries, hist, subMut>>

\* main.py:298-329
UNotify(t) ==
  /\ th[t].pc = "u_notify"
  /\ LET amount == th[t].amount
         difference == TOTAL_SUBSCRIPTION_PRICE - amount
     IN  \E sent \in CallOutcomes, logged \in CallOutcomes :
           /\ Failed(sent) + Failed(logged) <= MaxFaults - faults
           /\ faults' = faults + Failed(sent) + Failed(logged)
           /\ Send(Message(th[t].user, "shortfall", th[t].inv, amount, difference, 0), sent)
           /\ LogActivity(th[t].user, "payment_insufficient", th[t].inv, amount, difference, 0, logged)
           /\ Respond(t, [Response(400, "error", "insufficient_amount", "insufficient_amount")
                            EXCEPT !.amount_paid = amount,
                                   !.amount_required = TOTAL_SUBSCRIPTION_PRICE])
  /\ UNCHANGED <<config, calls, now, payments, subs, ledger, subCache, deliveries, subMut, statusWrites>>

\* main.py:337-338
SMark(t) ==
  /\ th[t].pc = "s_mark"
  /\ \E cacheOk \in CacheOutcomes :
       /\ faults' = faults + Failed(cacheOk)
       /\ mark_webhook_processed(th[t].inv, cacheOk)
  /\ th' = [th EXCEPT ![t].pc = "s_patch"]
  /\ UNCHANGED <<config, calls, now, store, subCache, outbox, last, answered, deliveries, ghosts>>

\* main.py:340-352
SPatch(t) ==
  /\ th[t].pc = "s_patch"
  /\ \E ok \in CallOutcomes :
       /\ faults' = faults + Failed(ok)
       /\ PatchStatus(th[t].inv, "paid", ok)
       /\ th' = [th EXCEPT ![t].pc = "sub_read", ![t].patched = ok]
  /\ UNCHANGED <<config, calls, now, subs, actlog, ledger, subCache, outbox, last, answered,
                 deliveries, hist, subMut>>

\* bot.py invalidate_subscription_cache: the key is deleted, unless there is
\* no cache or the delete raises (logged, ignored).
invalidate_subscription_cache(telegram_id, cacheOk) ==
  IF cacheOn /\ cacheOk
  THEN subCache' = [subCache EXCEPT ![telegram_id] = NoSnap]
  ELSE UNCHANGED subCache

\* bot.py:398-404: ids of the user's status=active rows with the latest end_date.
LatestActive(telegram_id) ==
  LET act == {k \in 1..Len(subs) : subs[k].user_id = telegram_id /\ subs[k].status = "active"}
  IN  {k \in act : \A j \in act : subs[j].end_date <= subs[k].end_date}

\* mutant: the caller goes on as if a row had been returned
AfterSubscription_AssumeRow(returnedRow) == "s_finish"

\* main.py:355-357 `if not subscription`: where the handler continues when
\* create_or_extend_subscription returned a row (TRUE) or None (FALSE)
AfterSubscription(returnedRow) == IF returnedRow THEN "s_finish" ELSE "s_fail"

\* bot.py:398-406 create_or_extend_subscription, the select and `now`.
SubRead(t) ==
  /\ th[t].pc = "sub_read"
  /\ \E ok \in CallOutcomes :
       /\ faults' = faults + Failed(ok)
       /\ IF ~ok THEN th' = [th EXCEPT ![t].pc = AfterSubscription(FALSE)]
          ELSE IF LatestActive(th[t].user) = {}
          THEN th' = [th EXCEPT ![t].pc = "sub_write", ![t].sub = 0, ![t].rdNow = now]
          ELSE \E k \in LatestActive(th[t].user) :
                 th' = [th EXCEPT ![t].pc = "sub_write", ![t].sub = k,
                                  ![t].end = subs[k].end_date, ![t].rdNow = now]
  /\ UNCHANGED <<config, calls, now, store, ledger, subCache, outbox, last, answered, deliveries, ghosts>>

\* mutant: the extension starts from the processing time
NewEnd_FromNow(current_end, nowRead) == nowRead + SUBSCRIPTION_DAYS

\* bot.py:411 the extended end date
NewEnd(current_end, nowRead) == Max(current_end, nowRead) + SUBSCRIPTION_DAYS

\* mutant: the extension restarts the subscription period
ExtendedRow_Restart(row, new_end, nowRead) ==
  [row EXCEPT !.end_date = new_end, !.updated_at = nowRead, !.start_date = nowRead]

\* bot.py:413-419 the update of the row found: end_date and updated_at
ExtendedRow(row, new_end, nowRead) ==
  [row EXCEPT !.end_date = new_end, !.updated_at = nowRead]

\* mutant: the new row records the list price, not the amount paid
new_subscription_ListPrice(telegram_id, amount, nowRead) ==
  SubRow(telegram_id, nowRead, nowRead + SUBSCRIPTION_DAYS, TOTAL_SUBSCRIPTION_PRICE)

\* bot.py:426-436 the row inserted when none was found
new_subscription(telegram_id, amount, nowRead) ==
  LET end_date == nowRead + SUBSCRIPTION_DAYS
  IN  SubRow(telegram_id, nowRead, end_date, amount)

\* bot.py:408-451 create_or_extend_subscription, the update or the insert.
SubWrite(t) ==
  /\ th[t].pc = "sub_write"
  /\ \E ok \in CallOutcomes, cacheOk \in CacheOutcomes :
       /\ Failed(ok) + Failed(cacheOk) <= MaxFaults - faults
       /\ ~ok => cacheOk
       /\ faults' = faults + Failed(ok) + Failed(cacheOk)
       /\ IF ~ok
          THEN /\ th' = [th EXCEPT ![t].pc = AfterSubscription(FALSE)]
               /\ UNCHANGED <<subs, subCache, subMut>>
          ELSE /\ IF th[t].sub # 0
                  THEN LET new_end == NewEnd(th[t].end, th[t].rdNow)
                       IN  /\ subs' = [subs EXCEPT ![th[t].sub] =
                                                ExtendedRow(@, new_end, th[t].rdNow)]
                           /\ th' = [th EXCEPT ![t].pc = AfterSubscription(TRUE), ![t].end = new_end]
                  ELSE LET row == new_subscription(th[t].user, th[t].amount, th[t].rdNow)
                       IN  /\ subs' = Append(subs, row)
                           /\ th' = [th EXCEPT ![t].pc = AfterSubscription(TRUE), ![t].sub = Len(subs) + 1,
                                               ![t].end = row.end_date]
               /\ invalidate_subscription_cache(th[t].user, cacheOk)
               /\ subMut' = [subMut EXCEPT ![th[t].inv] = @ + 1]
  /\ UNCHANGED <<config, calls, now, payments, actlog, ledger, outbox, last, answered, deliveries,
                 hist, statusWrites>>

\* main.py:357-374
SFail(t) ==
  /\ th[t].pc = "s_fail"
  /\ \E sent \in CallOutcomes, logged \in CallOutcomes :
       /\ Failed(sent) + Failed(logged) <= MaxFaults - faults
       /\ faults' = faults + Failed(sent) + Failed(logged)
       /\ Send(Message(th[t].user, "manual_fix", th[t].inv, 0, 0, 0), sent)
       /\ LogActivity(th[t].user, "subscription_activation_failed", th[t].inv,
                      th[t].amount, 0, 0, logged)
       /\ Respond(t, Response(500, "error", "subscription_failed", "subscription_failed"))
  /\ UNCHANGED <<config, calls, now, payments, subs, ledger, subCache, deliveries, subMut, statusWrites>>

\* main.py:390-394: the overpayment that is reported (more than one cent).
ReportedOverpayment(amount) ==
  LET overpayment == amount - TOTAL_SUBSCRIPTION_PRICE
  IN  IF overpayment > 1 THEN overpayment ELSE 0

\* mutant: a confirmation that was not delivered aborts the request
SuccessResponse_AbortOnSendFailure(success) ==
  IF success THEN Response(200, "success", "", "success")
  ELSE Response(500, "error", "internal", "internal_error")

\* main.py:407-408, 458-463: an undelivered confirmation is logged, and the
\* answer is the same.
SuccessResponse(success) == Response(200, "success", "", "success")

\* main.py:376-463.  After the link, line 388 parses the end_date text of the
\* row the store returned; datetime.fromisoformat raises on text it does not
\* accept (parsed = FALSE), which the handler's `except Exception` answers.
SFinish(t) ==
  /\ th[t].pc = "s_finish"
  /\ \E linked \in CallOutcomes, parsed \in CallOutcomes, sent \in CallOutcomes,
        logged \in CallOutcomes :
       /\ Failed(linked) + Failed(parsed) + Failed(sent) + Failed(logged) <= MaxFaults - faults
       /\ ~parsed => sent /\ logged
       /\ faults' = faults + Failed(linked) + Failed(parsed) + Failed(sent) + Failed(logged)
       /\ payments' = IF linked
                      THEN [payments EXCEPT ![th[t].inv].subscription_id = th[t].sub]
                      ELSE payments
       /\ IF parsed
          THEN /\ Send(Message(th[t].user, "confirmation", th[t].inv, th[t].amount,
                               ReportedOverpayment(th[t].amount), th[t].end), sent)
               /\ LogActivity(th[t].user, "payment_received", th[t].inv, th[t].amount,
                              ReportedOverpayment(th[t].amount), th[t].end, logged)
               /\ Respond(t, SuccessResponse(sent))
          ELSE /\ UNCHANGED <<outbox, actlog>>
               /\ Respond(t, ExceptException("internal_error"))
  /\ UNCHANGED <<config, calls, now, subs, ledger, subCache, deliveries, subMut, statusWrites>>

\* ------------------------------------------------------------ environment
\* A day passes; the 60-second subscription snapshots are gone by then.
Tick ==
  /\ now < Day0 + MaxTicks
  /\ now' = now + 1
  /\ subCache' = [u \in UserIds |-> NoSnap]
  /\ UNCHANGED <<config, calls, store, ledger, outbox, th, last, answered, deliveries, faults, ghosts>>

\* bot.py save_payment, called for an invoice of TOTAL_SUBSCRIPTION_PRICE
\* (bot.py:750,764): the pending payment row appears.
SavePayment(i, u) ==
  /\ payments[i] = NoRow
  /\ validate_telegram_id(u)
  /\ validate_amount(TOTAL_SUBSCRIPTION_PRICE)
  /\ payments' = [payments EXCEPT ![i] = PaymentRow(u, TOTAL_SUBSCRIPTION_PRICE)]
  /\ UNCHANGED <<config, calls, now, subs, actlog, ledger, subCache, outbox, th, last, answered,
                 deliveries, faults, ghosts>>

Step(t) ==
  \/ IdemCheck(t)
  \/ Lookup(t)
  \/ UMark(t)
  \/ UPatch(t)
  \/ UNotify(t)
  \/ SMark(t)
  \/ SPatch(t)
  \/ SubRead(t)
  \/ SubWrite(t)
  \/ SFail(t)
  \/ SFinish(t)

Environment ==
  \/ Tick
  \/ \E i \in Invoices, u \in Payers : SavePayment(i, u)

\* The server under concurrent deliveries of the processor's notifications.
Next ==
  \/ \E t \in Threads, r \in Notifications : Receive(t, r)
  \/ \E t \in Threads : Step(t)
  \/ Environment

Spec == Init /\ [][Next]_vars

\* Deliveries one after another.
NextSeq ==
  \/ \E r \in Notifications : ReceiveSeq(r)
  \/ Step(1)
  \/ Quiet /\ Environment

SpecSeq == Init /\ [][NextSeq]_vars

\* One thread facing arbitrary requests.
NextGate ==
  \/ \E r \in Requests : ReceiveAny(r)
  \/ Step(1)
  \/ Quiet /\ Tick

SpecGate == InitGate /\ [][NextGate]_vars

\* ----------------------------------------------- the subscription snapshots
\* bot.py:192-203 set_cached_subscription: the row as cached under sub:<user>
Snapshot(k) == [id |-> k, end_date |-> subs[k].end_date]

\* bot.py:269-277: the user's active rows that have not ended, latest first
ActiveNow(telegram_id) ==
  LET act == {k \in 1..Len(subs) : /\ subs[k].user_id = telegram_id
                                    /\ subs[k].status = "active"
                                    /\ subs[k].end_date >= now}
  IN  {k \in act : \A j \in act : subs[j].end_date <= subs[k].end_date}

\* bot.py:259-288 get_active_subscription with use_cache=True (the bot's
\* status command, bot.py:600): a cached snapshot is returned as it is;
\* otherwise the row read from the store is cached.  A failing cache read
\* is a miss, a failing query returns None, a failing cache write is ignored.
GetActiveSubscription(telegram_id) ==
  /\ validate_telegram_id(telegram_id)
  /\ \E readOk \in CacheOutcomes, ok \in CallOutcomes, writeOk \in CacheOutcomes :
       /\ Failed(readOk) + Failed(ok) + Failed(writeOk) <= MaxFaults - faults
       /\ faults' = faults + Failed(readOk) + Failed(ok) + Failed(writeOk)
       /\ LET cached == IF cacheOn /\ readOk THEN subCache[telegram_id] ELSE NoSnap
          IN  IF cached # NoSnap
              THEN ok /\ writeOk /\ UNCHANGED subCache
              ELSE IF ok /\ ActiveNow(telegram_id) # {} /\ cacheOn /\ writeOk
              THEN \E k \in ActiveNow(telegram_id) :
                     subCache' = [subCache EXCEPT ![telegram_id] = Snapshot(k)]
              ELSE UNCHANGED subCache
  /\ UNCHANGED <<config, calls, now, store, ledger, outbox, th, last, answered, deliveries,
                 ghosts>>

\* A deployment with a cache; users with a running, a lapsed and no
\* subscription.
InitCache ==
  /\ secret = ProcessorKey
  /\ cacheOn = TRUE
  /\ processed_webhooks = [ids |-> {}, others |-> 0]
  /\ \E st \in {<<WithA(PaymentRow(1, 1100)), <<>>>>, <<WithA(PaymentRow(1, 900)), Running>>,
                 <<WithA(PaymentRow(1, 1051)), Lapsed>>} :
       payments = st[1] /\ subs = st[2]
  /\ InitCommon

NextCache ==
  \/ \E r \in Notifications : ReceiveSeq(r)
  \/ Step(1)
  \/ Quiet /\ Tick
  \/ Quiet /\ \E u \in UserIds : GetActiveSubscription(u)

\* Deliveries one after another, with the bot answering status commands
\* in between.
SpecCache == InitCache /\ [][NextCache]_vars

\* ------------------------------------------- send_telegram_message, in full
\* What one attempt can give: a response that is ok, a response that is
\* not, or requests.post raising a RequestException.
TransportOutcomes == {"ok", "http_error", "request_exception"}
SendTargets == UserIds \cup {0, TELEGRAM_ID_LIMIT}

\* mutant: the wait is made after the last attempt too
SleepsAfter_Always(attempt) == TRUE

\* main.py:187 `if attempt < max_retries - 1`
SleepsAfter(attempt) == attempt < max_retries - 1

\* main.py:189 time.sleep(2 ** attempt), in seconds
BackoffSeconds(attempt) == 2 ^ attempt

\* main.py:162-166: the id check and the entry into the loop
SendCall(to, text) ==
  /\ snd.pc = "idle"
  /\ snd' = IF validate_telegram_id(to)
            THEN [SendIdle EXCEPT !.pc = "attempt", !.to = to, !.text = text]
            ELSE [SendIdle EXCEPT !.pc = "returned", !.to = to, !.text = text,
                                  !.result = "false"]
  /\ UNCHANGED <<config, sq, hl, vr, stq, rl, now, store, ledger, subCache, outbox, th, last, answered,
                 deliveries, faults, ghosts>>

\* main.py:167-185: one pass through the try block
SendAttempt(o) ==
  /\ snd.pc = "attempt"
  /\ snd' = IF o = "ok"
            THEN [snd EXCEPT !.pc = "returned", !.tried = Append(@, o), !.result = "true"]
            ELSE [snd EXCEPT !.pc = "failed", !.tried = Append(@, o)]
  /\ UNCHANGED <<config, sq, hl, vr, stq, rl, now, store, ledger, subCache, outbox, th, last, answered,
                 deliveries, faults, ghosts>>

\* main.py:187-191: the wait, then the next pass or the end of the loop
SendBackoff ==
  /\ snd.pc = "failed"
  /\ LET slept == IF SleepsAfter(snd.attempt)
                  THEN Append(snd.slept, BackoffSeconds(snd.attempt))
                  ELSE snd.slept
     IN  snd' = IF snd.attempt + 1 < max_retries
               THEN [snd EXCEPT !.pc = "attempt", !.attempt = @ + 1, !.slept = slept]
               ELSE [snd EXCEPT !.pc = "returned", !.attempt = @ + 1, !.slept = slept,
                                !.result = "false"]
  /\ UNCHANGED <<config, sq, hl, vr, stq, rl, now, store, ledger, subCache, outbox, th, last, answered,
                 deliveries, faults, ghosts>>

InitSend ==
  /\ secret = ProcessorKey
  /\ cacheOn = TRUE
  /\ payments = WithA(NoRow)
  /\ subs = <<>>
  /\ processed_webhooks = [ids |-> {}, others |-> 0]
  /\ InitCommon

NextSend ==
  \/ \E to \in SendTargets, text \in MessageKinds : SendCall(to, text)
  \/ \E o \in TransportOutcomes : SendAttempt(o)
  \/ SendBackoff

\* One call of send_telegram_message.
SpecSend == InitSend /\ [][NextSend]_vars

\* ------------------------------------- supabase_query and the health endpoint
\* mutant: a table of another schema is on the list
ALLOWED_TABLES_WithAuth ==
  {"users", "subscriptions", "payments", "activity_logs", "auth.users"}

\* main.py:120
ALLOWED_TABLES == {"users", "subscriptions", "payments", "activity_logs"}

\* Arguments of supabase_query: table names on and off the list, the methods
\* it knows and one it does not, filters (None, or a dict with an eq_ or a
\* gte_ key) and data (None or a dict).
TableNames == ALLOWED_TABLES \cup {"auth.users", "secrets"}
QueryMethods == {"GET", "POST", "PATCH", "DELETE"}
FilterArgs == {"none", "eq_", "gte_"}
DataArgs == {"none", "dict"}
\* what execute() gives: rows, an empty list, or an exception
ExecuteOutcomes == {"rows", "no_rows", "raises"}

\* main.py:123-158 supabase_query: the whitelist test, then the query
\* builder, the filters the method applies, execute() and result.data; None
\* for a table off the list, an unknown method or an exception.
supabase_query(table, method, filters, data, outcome) ==
  LET call == [SqIdle EXCEPT !.table = table, !.method = method, !.filters = filters,
                             !.data = data, !.outcome = outcome, !.result = "None"]
      applied == IF method = "GET" /\ filters \in {"eq_", "gte_"} THEN filters
                 ELSE IF method = "PATCH" /\ filters = "eq_" THEN filters
                 ELSE "none"
  IN  IF table \notin ALLOWED_TABLES THEN call
      ELSE IF method \notin {"GET", "POST", "PATCH"} THEN [call EXCEPT !.built = TRUE]
      ELSE [call EXCEPT !.built = TRUE, !.applied = applied, !.executed = TRUE,
                        !.result = IF outcome = "raises" THEN "None" ELSE outcome]

SupabaseQuery(table, method, filters, data, outcome) ==
  /\ sq' = supabase_query(table, method, filters, data, outcome)
  /\ UNCHANGED <<config, snd, hl, vr, stq, rl, now, store, ledger, subCache, outbox, th, last, answered,
                 deliveries, faults, ghosts>>

\* what the request to the payment processor's health URL gives
ProcessorOutcomes == {"ok", "not_ok", "raises"}

\* main.py:479-517 health
health(db, processor) ==
  LET h0 == [HlIdle.body EXCEPT !.status = "ok"]
      h1 == IF db # "raises" THEN [h0 EXCEPT !.database = "connected"]
            ELSE [h0 EXCEPT !.database = "error", !.status = "degraded"]
      h2 == IF processor # "raises"
            THEN [h1 EXCEPT !.btcpay = IF processor = "ok" THEN "connected" ELSE "error"]
            ELSE [h1 EXCEPT !.btcpay = "error", !.status = "degraded"]
      h3 == [h2 EXCEPT !.cache = IF cacheOn THEN "enabled" ELSE "disabled"]
  IN  [db |-> db, processor |-> processor, body |-> h3,
       code |-> IF h3.status = "ok" THEN 200 ELSE 503]

Health(db, processor) ==
  /\ hl' = health(db, processor)
  /\ UNCHANGED <<config, snd, sq, vr, stq, rl, now, store, ledger, subCache, outbox, th, last, answered,
                 deliveries, faults, ghosts>>

InitOps ==
  /\ secret = ProcessorKey
  /\ cacheOn \in BOOLEAN
  /\ payments = WithA(NoRow)
  /\ subs = <<>>
  /\ processed_webhooks = [ids |-> {}, others |-> 0]
  /\ InitCommon

NextOps ==
  \/ \E table \in TableNames, method \in QueryMethods, filters \in FilterArgs,
        data \in DataArgs, outcome \in ExecuteOutcomes :
       SupabaseQuery(table, method, filters, data, outcome)
  \/ \E db \in ExecuteOutcomes, processor \in ProcessorOutcomes : Health(db, processor)

\* The store helper and the health endpoint called on their own.
SpecOps == InitOps /\ [][NextOps]_vars

TypeOK ==
  /\ now \in Day0..(Day0 + MaxTicks)
  /\ faults \in 0..MaxFaults
  /\ \A t \in Threads : th[t].pc \in {"idle", "idem", "lookup", "u_mark", "u_patch", "u_notify",
                                     "s_mark", "s_patch", "sub_read", "sub_write", "s_fail", "s_finish"}

\* ------------------------------------------------------- claim vocabulary
Outcomes(i) == {hist[i][k] : k \in 1..Len(hist[i])}
TerminalOutcomes == {"success", "insufficient_amount", "subscription_failed"}
\* outcomes of the deliveries that went past the record's validation
ProcessedOutcomes == TerminalOutcomes \cup {"internal_error"}
\* outcomes answered by the handler's `except Exception`
GenericErrorOutcomes == {"not_found", "invalid_user", "invalid_amount", "internal_error"}

\* the messages of one kind the user received on account of an invoice
Received(i, kind) ==
  {e \in BagToSet(outbox) : e.delivered /\ e.msg.inv = i /\ e.msg.kind = kind}
AtMostOneReceived(i, kind) ==
  /\ Cardinality(Received(i, kind)) <= 1
  /\ \A e \in Received(i, kind) : CopiesIn(e, outbox) = 1

\* the ledger holds a marker for the invoice id (expired or not)
MarkerSet(i) == redis[i] # 0 \/ i \in processed_webhooks.ids

\* the signature header is the HMAC of the body under the configured secret,
\* with or without the sha256= prefix
SignatureMatches(r) ==
  r.sig \in {<<Hmac(secret, r.body)>>, <<Sha256Prefix, Hmac(secret, r.body)>>}

\* the stored record of an invoice fails validation
InvalidRecord(i) ==
  /\ payments[i] # NoRow
  /\ \/ ~(0 < payments[i].user_id /\ payments[i].user_id < TELEGRAM_ID_LIMIT)
     \/ ~(MIN_SUBSCRIPTION_PRICE <= payments[i].amount
          /\ payments[i].amount <= MAX_SUBSCRIPTION_PRICE)

\* a notification with both fields whose event type is not a payment event
IrrelevantEvent(r) ==
  /\ r.body.shape = "dict"
  /\ r.body.type \notin {"", "InvoiceSettled", "InvoiceProcessing", "InvoiceReceivedPayment"}
  /\ r.body.invoiceId.kind # "absent"

\* the latest end_date among a user's active rows, 0 when there is none
UserEnd(sb, u) ==
  LET ends == {sb[k].end_date : k \in {j \in 1..Len(sb) : sb[j].user_id = u /\ sb[j].status = "active"}}
  IN  IF ends = {} THEN 0 ELSE CHOOSE e \in ends : \A o \in ends : o <= e

\* ------------------------------------------------------------------ claims
\* C1: deliveries of the same notification one after another, within the
\* marker's lifetime, for a payment that is stored and valid: the subscription
\* is created or extended exactly once, the user receives at most one message
\* of each kind, and the 2nd..Nth deliveries are answered already_processed.
C1_SequentialIdempotency ==
  \A i \in Invoices :
    (now = Day0 /\ Len(hist[i]) >= 1 /\ hist[i][1] \in TerminalOutcomes) =>
      /\ subMut[i] <= 1
      /\ hist[i][1] = "success" => subMut[i] = 1
      /\ \A kind \in MessageKinds : AtMostOneReceived(i, kind)
      /\ \A k \in 2..Len(hist[i]) : hist[i][k] = "already_processed"

\* C2: under concurrent handling of the same invoice id, the payment's
\* status transition and the subscription create/extend happen at most once.
C2_NoDoubleCredit ==
  \A i \in Invoices : statusWrites[i] <= 1 /\ subMut[i] <= 1

\* C3: an invoice whose stored amount is below the required total price never
\* has a subscription row created or extended for it, and no handler of it
\* ever reaches the subscription steps.
C3_UnderpaymentNeverActivates ==
  \A i \in Invoices :
    (payments[i] # NoRow /\ payments[i].amount < TOTAL_SUBSCRIPTION_PRICE) =>
      /\ subMut[i] = 0
      /\ \A t \in Threads :
           th[t].inv = i => th[t].pc \notin {"s_mark", "s_patch", "sub_read", "sub_write",
                                             "s_fail", "s_finish"}

C3_Witness ==
  \E i \in Invoices :
    /\ payments[i].amount < TOTAL_SUBSCRIPTION_PRICE
    /\ payments[i].status = "insufficient_amount"
    /\ "insufficient_amount" \in Outcomes(i)
    /\ Len(hist[i]) >= 2
    /\ subMut[i] = 0

C5_SignatureGate ==
  [][/\ \A t \in Threads : th'[t].pc # "idle" => SignatureMatches(th'[t].req)
     /\ (deliveries' # deliveries /\ th' = th /\ ~SignatureMatches(last'.req)) =>
          /\ UNCHANGED <<payments, subs, actlog, redis, processed_webhooks, subCache, outbox>>
          /\ last'.resp.code \notin 200..299
    ]_vars

C5_Witness ==
  /\ secret # NoSecret
  /\ last.req.sig = <<Hmac(NoSecret, last.req.body)>>
  /\ last.req.body.type \in RelevantEvents
  /\ last.req.body.invoiceId = JsonStr(InvB)
  /\ last.resp.outcome = "bad_signature"
  /\ payments[InvB].status = "pending"

\* C6: with no webhook secret configured every request is refused: no handler
\* runs, no payment status changes, no subscription is created or extended,
\* no marker is set and no message is sent.
C6_NoSecretRefusesAll ==
  secret = NoSecret =>
    /\ \A t \in Threads : th[t].pc = "idle"
    /\ \A i \in Invoices :
         /\ payments[i].status \in {"pending", "absent"}
         /\ statusWrites[i] = 0 /\ subMut[i] = 0
         /\ ~MarkerSet(i)
    /\ Len(subs) = 0
    /\ BagToSet(outbox) = {}
    /\ last.resp.code \notin 200..299

C6_Witness ==
  /\ secret = NoSecret
  /\ deliveries = MaxGateDeliveries
  /\ last.req.sig = <<Hmac(NoSecret, last.req.body)>>
  /\ last.req.body.type \in RelevantEvents
  /\ last.resp.outcome = "config_error"

\* C7: a request whose signature fails verification is answered 401.
C7_BadSignature401 ==
  (last.req # NoReq /\ secret # NoSecret /\ ~SignatureMatches(last.req)) =>
    last.resp.code = 401

\* C8: a correctly signed request whose body is not a JSON object or lacks
\* type or invoiceId is answered 400, and a correctly signed relevant
\* notification whose invoice id has no payment row is answered 404.
C8_Malformed400Missing404 ==
  (last.req # NoReq /\ secret # NoSecret /\ SignatureMatches(last.req)) =>
    LET b == last.req.body
        id == sanitize_string(b.invoiceId, INVOICE_ID_MAXLEN)
    IN  /\ (b.shape # "dict" \/ b.type = "" \/ b.invoiceId.kind = "absent") =>
             last.resp.code = 400
        /\ (b.shape = "dict" /\ b.type \in RelevantEvents /\ b.invoiceId.kind # "absent"
            /\ (id \notin Invoices \/ payments[id] = NoRow)) =>
             last.resp.code = 404

\* C9: a notification for an invoice id without a payment row sets no marker,
\* however often it is delivered; already_processed is answered only after a
\* delivery that was processed, so the redelivery that finds the row is
\* processed normally.
C9_NotFoundStaysRetryable ==
  \A i \in Invoices :
    /\ payments[i] = NoRow => ~MarkerSet(i)
    /\ ((\A t \in Threads : th[t].pc = "idle") /\ Outcomes(i) \subseteq {"not_found"}) =>
         ~MarkerSet(i)
    /\ \A k \in 1..Len(hist[i]) :
         hist[i][k] = "already_processed" =>
           \E j \in 1..(k - 1) : hist[i][j] \in ProcessedOutcomes

C9_Witness ==
  \E i \in Invoices :
    /\ hist[i] = <<"not_found", "success">>
    /\ faults = 0
    /\ payments[i].status = "paid"
    /\ subMut[i] = 1
    /\ MarkerSet(i)

\* C10: when the stored payment record is invalid the invoice id is marked
\* processed, and every later redelivery is answered already_processed.
C10_InvalidRecordMarked ==
  \A i \in Invoices :
    (InvalidRecord(i) /\ Len(hist[i]) >= 1 /\ hist[i][1] # "not_found") =>
      /\ MarkerSet(i)
      /\ \A k \in 2..Len(hist[i]) : hist[i][k] = "already_processed"

\* C11: a delivery answered with the generic internal error (500 with an
\* error id) leaves no marker for its invoice id, and the redelivery that
\* follows it is processed, not answered already_processed.
C11_GenericErrorLeavesNoMarker ==
  \A i \in Invoices :
    (Len(hist[i]) >= 1 /\ hist[i][1] \in GenericErrorOutcomes) =>
      /\ (Quiet /\ Len(hist[i]) = 1) => ~MarkerSet(i)
      /\ (now = Day0 /\ Len(hist[i]) >= 2) => hist[i][2] # "already_processed"

\* C12: payments processed one after another: a user's end_date never
\* decreases, and each confirmed subscription write leaves it at
\* max(end_date before, processing time) + plan duration.
C12_MonotonicExtension ==
  [][/\ \A u \in UserIds : UserEnd(subs', u) >= UserEnd(subs, u)
     /\ \A t \in Threads :
          (th[t].pc = "sub_write" /\ subMut' # subMut) =>
            UserEnd(subs', th[t].user)
              = Max(UserEnd(subs, th[t].user), now) + SUBSCRIPTION_DAYS
    ]_vars

C12_Witness ==
  /\ hist[InvA] = <<"success">> /\ hist[InvB] = <<"success">>
  /\ now = Day0
  /\ Len(subs) = 1
  /\ subs[1].end_date = 20 + 2 * SUBSCRIPTION_DAYS
  /\ subs[1].start_date = 0

\* C13: under concurrent create_or_extend_subscription executions the stored
\* end_date of a subscription row never moves backward.
C13_EndDateNeverBackward ==
  [][\A k \in 1..Len(subs) : subs'[k].end_date >= subs[k].end_date]_vars

\* C14: a sufficient payment whose subscription write does not confirm: the
\* manual-fix message is handed to the notifier, the failure is logged, the
\* invoice id is marked, and every redelivery within the marker's lifetime
\* is answered already_processed with no further subscription write.
C14_WriteFailureIsFinal ==
  \A i \in Invoices :
    (now = Day0 /\ Len(hist[i]) >= 1 /\ hist[i][1] = "subscription_failed") =>
      /\ \E e \in BagToSet(outbox) : e.msg.inv = i /\ e.msg.kind = "manual_fix"
      /\ faults <= 1 =>
           \E a \in BagToSet(actlog) :
             a.invoice_id = i /\ a.action = "subscription_activation_failed"
      /\ \A k \in 2..Len(hist[i]) : hist[i][k] = "already_processed"
      /\ \A t \in Threads : th[t].inv = i => th[t].pc \in {"idle", "idem"}
      /\ subMut[i] = 0

\* C15: at the moment the handler answers 200 success, the payment is stored
\* as paid with its paid timestamp and the user's subscription row was
\* created or extended by this request.
C15_SuccessReflectsPersistedState ==
  [][\A t \in Threads :
       (th[t].pc = "s_finish" /\ th'[t].pc = "idle" /\ last'.resp.outcome = "success"
        /\ last'.req = th[t].req /\ answered' # answered) =>
         /\ payments'[th[t].inv].status = "paid"
         /\ payments'[th[t].inv].paid_at # 0
         /\ th[t].sub \in 1..Len(subs')
         /\ subs'[th[t].sub].user_id = th[t].user
         /\ subMut'[th[t].inv] >= 1
    ]_vars

\* C16: a payment row's status changes only from pending to paid or
\* insufficient_amount; once terminal it keeps its value over every later
\* delivery (a repeated update writes the same status again).
C16_StatusChangesOnce ==
  [][\A i \in Invoices :
       (payments[i] # NoRow /\ payments'[i].status # payments[i].status) =>
         /\ payments[i].status = "pending"
         /\ payments'[i].status \in {"paid", "insufficient_amount"}
    ]_vars

C16_Witness ==
  \E i \in Invoices :
    /\ payments[i].status = "paid"
    /\ statusWrites[i] >= 2
    /\ Len(hist[i]) >= 2 /\ hist[i][1] = "success" /\ hist[i][2] = "success"

\* C17: a correctly signed notification whose event type is none of
\* InvoiceSettled, InvoiceProcessing, InvoiceReceivedPayment is answered 200
\* ignored in the step that receives it, no handler ever runs for it, and the
\* store, the ledger, the cache and the notifier are left untouched.
C17_IrrelevantEventsIgnored ==
  [][/\ \A t \in Threads : th'[t].pc # "idle" => ~IrrelevantEvent(th'[t].req)
     /\ (deliveries' # deliveries /\ th' = th /\ secret # NoSecret
         /\ SignatureMatches(last'.req) /\ IrrelevantEvent(last'.req)) =>
          /\ last'.resp.code = 200 /\ last'.resp.status = "ignored"
          /\ UNCHANGED <<payments, subs, actlog, redis, processed_webhooks,
                         subCache, outbox>>
    ]_vars

C17_Witness ==
  /\ secret # NoSecret
  /\ SignatureMatches(last.req)
  /\ last.req.body.type = "InvoiceExpired"
  /\ last.req.body.invoiceId = JsonStr(InvA)
  /\ last.resp.code = 200 /\ last.resp.status = "ignored"
  /\ deliveries = MaxGateDeliveries
  /\ payments[InvA].status = "pending" /\ ~MarkerSet(InvA)

\* C18: a payment above the required total price extends or creates the
\* subscription by exactly one plan duration whatever the excess, and the
\* confirmation handed to the notifier reports amount minus required price.
C18_OverpaymentExtendsOnceAndIsReported ==
  [][\A t \in Threads :
       th[t].amount > TOTAL_SUBSCRIPTION_PRICE =>
         /\ (th[t].pc = "sub_write" /\ subMut' # subMut) =>
              UserEnd(subs', th[t].user)
                = Max(UserEnd(subs, th[t].user), now) + SUBSCRIPTION_DAYS
         /\ (th[t].pc = "s_finish" /\ th'[t].pc = "idle" /\ last'.resp.outcome = "success"
             /\ answered' # answered) =>
              \E e \in BagToSet(outbox') :
                /\ CopiesIn(e, outbox') = CopiesIn(e, outbox) + 1
                /\ e.msg.kind = "confirmation" /\ e.msg.inv = th[t].inv
                /\ e.msg.diff = th[t].amount - TOTAL_SUBSCRIPTION_PRICE
    ]_vars

\* C19: on the underpayment path the shortfall stated to the user and the one
\* logged are the required total price (base price plus the fee) minus the
\* stored amount, in cents, and the 400 response carries the amount paid and
\* the amount required.
C19_ShortfallExact ==
  LET required == SUBSCRIPTION_PRICE + (SUBSCRIPTION_PRICE * PROCESSING_FEE_PERCENT) \div 100
  IN  /\ \A e \in BagToSet(outbox) :
           e.msg.kind = "shortfall" =>
             /\ e.msg.paid = payments[e.msg.inv].amount
             /\ e.msg.required = required
             /\ e.msg.diff = required - payments[e.msg.inv].amount
      /\ \A a \in BagToSet(actlog) :
           a.action = "payment_insufficient" =>
             /\ a.amount = payments[a.invoice_id].amount
             /\ a.diff = required - payments[a.invoice_id].amount
      /\ last.resp.reason = "insufficient_amount" =>
           /\ last.resp.code = 400
           /\ last.resp.amount_required = required
           /\ \E i \in Invoices :
                last.req = Notification(i) /\ last.resp.amount_paid = payments[i].amount

C19_Witness ==
  /\ payments[InvA].amount = 900
  /\ last.req = Notification(InvA)
  /\ last.resp.code = 400 /\ last.resp.amount_paid = 900 /\ last.resp.amount_required = 1050
  /\ \E e \in Received(InvA, "shortfall") : e.msg.diff = 150
  /\ \E a \in BagToSet(actlog) : a.action = "payment_insufficient" /\ a.diff = 150

\* C20 as stated: the call stops and returns true at the first attempt that
\* succeeds; when every attempt fails it has backed off 1, 2 and 4 seconds
\* and returns false without raising.
C20_BackoffOneTwoFour ==
  snd.pc = "returned" =>
    /\ snd.result \in {"true", "false"}
    /\ snd.result = "true" => snd.tried[Len(snd.tried)] = "ok"
    /\ (validate_telegram_id(snd.to) /\ snd.result = "false") => snd.slept = <<1, 2, 4>>

\* C20 amended: a call for a valid id makes at most three attempts, waiting
\* 1 second after the first failure and 2 seconds after the second; it
\* returns true at the first attempt that succeeds and makes no further
\* attempt; after three failures it returns false, with no wait after the
\* last one; it never raises on a transport failure.  For an invalid id it
\* returns false without any attempt.
C20_ThreeAttemptsBackoffOneTwo ==
  /\ Len(snd.tried) <= 3
  /\ \A k \in 1..(Len(snd.tried) - 1) : snd.tried[k] # "ok"
  /\ snd.slept \in {<<>>, <<1>>, <<1, 2>>}
  /\ snd.pc = "attempt" => Len(snd.slept) = Len(snd.tried)
  /\ snd.pc = "returned" =>
       /\ snd.result \in {"true", "false"}
       /\ ~validate_telegram_id(snd.to) => snd.result = "false" /\ snd.tried = <<>>
       /\ snd.result = "true" =>
            /\ snd.tried # <<>> /\ snd.tried[Len(snd.tried)] = "ok"
            /\ Len(snd.slept) = Len(snd.tried) - 1
       /\ (snd.result = "false" /\ validate_telegram_id(snd.to)) =>
            /\ Len(snd.tried) = 3
            /\ \A k \in 1..3 : snd.tried[k] # "ok"
            /\ snd.slept = <<1, 2>>

C20_Witness ==
  /\ snd.pc = "returned" /\ snd.result = "false"
  /\ snd.to = 1
  /\ snd.tried = <<"http_error", "request_exception", "http_error">>
  /\ snd.slept = <<1, 2>>

\* C21: on the success path, after the payment status and the subscription
\* were written, a confirmation the notifier fails to deliver changes
\* nothing: the handler answers 200 success, and the payment's status and
\* paid timestamp, the subscriptions table and the ledger are as they were.
C21_ConfirmationFailureKeepsOutcome ==
  [][\A t \in Threads :
       (/\ th[t].pc = "s_finish" /\ th'[t] # th[t]
        /\ \E e \in BagToSet(outbox') :
             /\ e.msg.kind = "confirmation" /\ ~e.delivered
             /\ CopiesIn(e, outbox') > CopiesIn(e, outbox)) =>
         /\ th'[t].pc = "idle"
         /\ last'.req = th[t].req
         /\ last'.resp.code = 200 /\ last'.resp.status = "success"
         /\ payments'[th[t].inv].status = payments[th[t].inv].status
         /\ payments'[th[t].inv].paid_at = payments[th[t].inv].paid_at
         /\ subs' = subs
         /\ UNCHANGED <<redis, processed_webhooks>>
    ]_vars

C21_Witness ==
  \E i \in Invoices :
    /\ hist[i] = <<"success">>
    /\ last.req = Notification(i) /\ last.resp.code = 200
    /\ \E e \in BagToSet(outbox) :
         e.msg.kind = "confirmation" /\ e.msg.inv = i /\ ~e.delivered
    /\ Received(i, "confirmation") = {}
    /\ payments[i].status = "paid" /\ payments[i].paid_at = Day0
    /\ subMut[i] = 1
    /\ MarkerSet(i)

\* C22: a call of supabase_query naming a table outside users,
\* subscriptions, payments, activity_logs returns None and performs no
\* underlying query (no builder, no filter, no execute), whatever the
\* method, the filters and the data.
C22_WhitelistBlocksQuery ==
  (sq # SqIdle /\ sq.table \notin {"users", "subscriptions", "payments", "activity_logs"}) =>
    /\ sq.result = "None"
    /\ ~sq.built /\ sq.applied = "none" /\ ~sq.executed

C22_Witness ==
  /\ sq.table = "auth.users" /\ sq.method = "PATCH"
  /\ sq.filters = "eq_" /\ sq.data = "dict" /\ sq.outcome = "rows"
  /\ sq.result = "None" /\ ~sq.executed

\* C23: the health endpoint answers 503 with status degraded whenever the
\* check of the store or of the payment processor is reported as error, and
\* answers 200 only when both are reported connected.
C23_HealthDegradedOnAnyError ==
  hl # HlIdle =>
    /\ (hl.body.database = "error" \/ hl.body.btcpay = "error") =>
         hl.code = 503 /\ hl.body.status = "degraded"
    /\ hl.code = 200 =>
         hl.body.database = "connected" /\ hl.body.btcpay = "connected"

\* C24: on every terminal path the marker of the invoice id is set as the
\* very last step: the step that sets it is the one that answers the
\* request with a terminal outcome, after the status update, the
\* subscription write and the notification.
C24_MarkerSetLast ==
  [][\A i \in Invoices :
       (~MarkerSet(i) /\ MarkerSet(i)') =>
         /\ answered' = answered + 1
         /\ last'.req = Notification(i)
         /\ last'.resp.outcome \in TerminalOutcomes
    ]_vars

C26_ExtendTouchesOnlyEndDate ==
  [][\A t \in Threads :
       (th[t].pc = "sub_write" /\ th[t].sub # 0 /\ th'[t] # th[t] /\ subMut' # subMut) =>
         /\ Len(subs') = Len(subs)
         /\ \A k \in 1..Len(subs) :
              /\ k # th[t].sub => subs'[k] = subs[k]
              /\ subs'[k].user_id = subs[k].user_id
              /\ subs'[k].start_date = subs[k].start_date
              /\ subs'[k].status = subs[k].status
              /\ subs'[k].plan_type = subs[k].plan_type
              /\ subs'[k].amount_paid = subs[k].amount_paid
    ]_vars

C26_Witness ==
  /\ hist[InvA] = <<"success">>
  /\ payments[InvA].amount = 1100
  /\ Len(subs) = 1
  /\ subs[1] = [SubRow(1, 0, 20 + SUBSCRIPTION_DAYS, 1050) EXCEPT !.updated_at = Day0]

C28_ConfirmedWriteInvalidatesSnapshot ==
  [][\A t \in Threads :
       (th[t].pc = "sub_write" /\ th'[t] # th[t] /\ subMut' # subMut) =>
         subCache'[th[t].user] = NoSnap
    ]_vars

\* C29: create_or_extend_subscription returns a row exactly when its update
\* or insert was confirmed, and that row is the one written; when the
\* select or the write raises or returns no data nothing is written, None
\* is returned, and the caller answers subscription_failed, never success.
C29_RowOnlyWhenConfirmed ==
  [][\A t \in Threads :
       th'[t] # th[t] =>
         /\ th[t].pc = "sub_read" =>
              /\ subs' = subs
              /\ th'[t].pc \in {"sub_write", "s_fail"}
         /\ th[t].pc = "sub_write" =>
              /\ th'[t].pc \in {"s_finish", "s_fail"}
              /\ (th'[t].pc = "s_finish") <=> (subs' # subs)
              /\ th'[t].pc = "s_finish" =>
                   /\ th'[t].sub \in 1..Len(subs')
                   /\ subs'[th'[t].sub].user_id = th[t].user
                   /\ subs'[th'[t].sub].end_date = th'[t].end
                   /\ subs'[th'[t].sub].status = "active"
         /\ th[t].pc = "s_fail" =>
              /\ subs' = subs
              /\ last'.resp.code = 500 /\ last'.resp.reason = "subscription_failed"
         /\ (answered' # answered /\ last'.resp.outcome = "success") =>
              th[t].pc = "s_finish"
    ]_vars

C29_Witness ==
  /\ hist[InvA] = <<"subscription_failed">> /\ hist[InvB] = <<"success">>
  /\ subMut[InvA] = 0 /\ subMut[InvB] = 1
  /\ subs = <<SubRow(1, Day0, Day0 + SUBSCRIPTION_DAYS, TOTAL_SUBSCRIPTION_PRICE)>>
  /\ payments[InvA].status = "paid"

\* C30: on the success path the overpayment is the amount minus the
\* required price; the confirmation and the activity log report it when it
\* is one cent or more and report none when it is below one cent.
C30_OverpaymentReportedFromOneCent ==
  /\ \A e \in BagToSet(outbox) :
       e.msg.kind = "confirmation" =>
         LET overpayment == payments[e.msg.inv].amount - TOTAL_SUBSCRIPTION_PRICE
         IN  e.msg.diff = IF overpayment >= 1 THEN overpayment ELSE 0
  /\ \A a \in BagToSet(actlog) :
       a.action = "payment_received" =>
         LET overpayment == payments[a.invoice_id].amount - TOTAL_SUBSCRIPTION_PRICE
         IN  a.diff = IF overpayment >= 1 THEN overpayment ELSE 0

\* C31: without a cache the in-process set never holds more than
\* WEBHOOK_CACHE_SIZE entries after a mark, and the entry evicted on
\* overflow is the oldest-inserted one: while ids older than the modelled
\* ones are in the set, no modelled id leaves it and the id just marked is
\* in it.
C31_BoundedSetEvictsOldest ==
  [][processed_webhooks' # processed_webhooks =>
       /\ Cardinality(processed_webhooks'.ids) + processed_webhooks'.others <= 1000
       /\ processed_webhooks.others > 0 =>
            /\ processed_webhooks.ids \subseteq processed_webhooks'.ids
            /\ \A t \in Threads :
                 th'[t] # th[t] => th[t].inv \in processed_webhooks'.ids
    ]_vars

\* C34: once a mark of an invoice id has returned, every check of that id
\* made before the marker's expiry answers processed, in every ledger mode:
\* with a cache, without one, with cache calls that fail, and with the
\* in-process set at capacity when the mark was made.
C34_MarkedStaysProcessed ==
  [][\A t \in Threads :
       (/\ th[t].pc = "idem" /\ th'[t] # th[t]
        /\ now = Day0
        /\ \E k \in 1..Len(hist[th[t].inv]) : hist[th[t].inv][k] \in ProcessedOutcomes) =>
         /\ th'[t].pc = "idle"
         /\ last'.resp.outcome = "already_processed"
    ]_vars

\* C35: two distinct sufficient invoices of one user, handled in any
\* interleaving: once both handlers have answered success no extension is
\* lost, the user's end_date exceeds its value before both by at least two
\* plan durations.
C35_NoLostExtension ==
  (/\ hist[InvA] = <<"success">> /\ hist[InvB] = <<"success">>
   /\ payments[InvA].user_id = payments[InvB].user_id) =>
    UserEnd(subs, payments[InvA].user_id)
      >= UserEnd(subs0, payments[InvA].user_id) + 2 * SUBSCRIPTION_DAYS

\* C37: whenever no handler is running, an invoice id that is marked
\* processed has a payment row with a terminal status, paid or
\* insufficient_amount, also after a store write of the handler failed.
C37_MarkedImpliesTerminalStatus ==
  Quiet =>
    \A i \in Invoices :
      MarkerSet(i) => payments[i].status \in {"paid", "insufficient_amount"}

\* C38: in every interleaving of payment handlers every user has at most
\* one subscription row with status active.
C38_AtMostOneActiveRow ==
  \A u \in UserIds :
    Cardinality({k \in 1..Len(subs) : subs[k].user_id = u /\ subs[k].status = "active"}) <= 1

\* ------------------------------------------------ signature verification
\* the signature headers a caller can send with body b
VerifyHeaders(b) ==
  SignaturesFor(b)
    \cup {<<Sha256Prefix, Sha256Prefix, Hmac(ProcessorKey, b)>>,
          <<Sha256Prefix>>, <<NonAscii>>, <<Sha256Prefix, NonAscii>>,
          <<Hmac(ProcessorKey, Body("notdict", "", JsonAbsent))>>,
          <<Sha256Prefix, Hmac(NoSecret, b)>>}

\* bot.py:127-146 one call of verify_btcpay_webhook with the configured secret
Verify(payload, signature) ==
  /\ vr' = [called |-> TRUE, payload |-> payload, signature |-> signature,
            result |-> verify_btcpay_webhook(secret, payload, signature)]
  /\ UNCHANGED <<config, snd, sq, hl, stq, rl, now, store, ledger, subCache, outbox, th,
                 last, answered, deliveries, faults, ghosts>>

\* Deployments with and without a webhook secret.
InitVerify ==
  /\ secret \in {NoSecret, ProcessorKey}
  /\ cacheOn = FALSE
  /\ processed_webhooks = [ids |-> {}, others |-> 0]
  /\ payments = [i \in Invoices |-> NoRow]
  /\ subs = <<>>
  /\ InitCommon

NextVerify == \E b \in Bodies : \E sg \in VerifyHeaders(b) : Verify(b, sg)

\* verify_btcpay_webhook called with any body and header.
SpecVerify == InitVerify /\ [][NextVerify]_vars

\* C33: verify_btcpay_webhook answers a Boolean for every input, and answers
\* true exactly when a secret is configured, the header is not empty, and
\* the header with at most one leading "sha256=" removed is the HMAC-SHA256
\* hex digest of the body under the secret.
C33_VerifyExactlyOnMatch ==
  vr.called =>
    /\ vr.result \in BOOLEAN
    /\ vr.result <=>
         /\ secret # NoSecret
         /\ vr.signature # <<>>
         /\ \/ vr.signature = <<Hmac(secret, vr.payload)>>
            \/ vr.signature = <<Sha256Prefix, Hmac(secret, vr.payload)>>

\* a prefixed digest was accepted
C33_Witness ==
  /\ vr.called /\ vr.result
  /\ vr.signature = <<Sha256Prefix, Hmac(ProcessorKey, vr.payload)>>

\* ------------------------------------------------- the bot's status query
\* a subscription that ends today
EndingToday == <<SubRow(1, 0, Day0, 1050)>>

\* bot.py:261-267 get_active_subscription(telegram_id, use_cache=True) up
\* to the cache lookup: a cached snapshot is returned as it is; a failing
\* cache read is a miss (bot.py:177-189).
StatusCall(telegram_id) ==
  /\ stq.pc \in {"idle", "returned"}
  /\ validate_telegram_id(telegram_id)
  /\ \E readOk \in CacheOutcomes :
       /\ faults' = faults + Failed(readOk)
       /\ LET cached == IF cacheOn /\ readOk THEN subCache[telegram_id] ELSE NoSnap
          IN  stq' = IF cached # NoSnap
                     THEN [pc |-> "returned", user |-> telegram_id, cached |-> TRUE,
                           failed |-> FALSE, row |-> NoSnap, result |-> cached]
                     ELSE [pc |-> "query", user |-> telegram_id, cached |-> FALSE,
                           failed |-> FALSE, row |-> NoSnap, result |-> NoSnap]
  /\ UNCHANGED <<config, snd, sq, hl, vr, rl, now, store, ledger, subCache, outbox, th,
                 last, answered, deliveries, ghosts>>

\* bot.py:269-279 the query: the user's active row with the latest
\* end_date >= now, or None; bot.py:286-288 an exception returns None.
StatusQuery ==
  /\ stq.pc = "query"
  /\ \E ok \in CallOutcomes :
       /\ faults' = faults + Failed(ok)
       /\ IF ~ok
          THEN stq' = [stq EXCEPT !.pc = "returned", !.failed = TRUE, !.result = NoSnap]
          ELSE IF ActiveNow(stq.user) = {}
          THEN stq' = [stq EXCEPT !.pc = "returned", !.result = NoSnap]
          ELSE \E k \in ActiveNow(stq.user) :
                 stq' = [stq EXCEPT !.pc = "cache_write", !.row = Snapshot(k)]
  /\ UNCHANGED <<config, snd, sq, hl, vr, rl, now, store, ledger, subCache, outbox, th,
                 last, answered, deliveries, ghosts>>

\* bot.py:281-284 the row that was read is cached for 60 seconds and
\* returned; a failing cache write is logged (bot.py:192-203).
StatusCacheWrite ==
  /\ stq.pc = "cache_write"
  /\ \E writeOk \in CacheOutcomes :
       /\ faults' = faults + Failed(writeOk)
       /\ subCache' = IF cacheOn /\ writeOk
                      THEN [subCache EXCEPT ![stq.user] = stq.row]
                      ELSE subCache
  /\ stq' = [stq EXCEPT !.pc = "returned", !.result = stq.row]
  /\ UNCHANGED <<config, snd, sq, hl, vr, rl, now, store, ledger, outbox, th,
                 last, answered, deliveries, ghosts>>

\* The clock passes midnight within the 60 seconds of a snapshot.
Midnight ==
  /\ now < Day0 + MaxTicks
  /\ now' = now + 1
  /\ UNCHANGED <<config, calls, store, ledger, subCache, outbox, th, last, answered,
                 deliveries, faults, ghosts>>

\* A deployment with a cache.
InitStatus ==
  /\ secret = ProcessorKey
  /\ cacheOn = TRUE
  /\ processed_webhooks = [ids |-> {}, others |-> 0]
  /\ \E st \in {<<WithA(PaymentRow(1, 1100)), <<>>>>,
                 <<WithA(PaymentRow(1, 1100)), EndingToday>>,
                 <<WithA(PaymentRow(1, 900)), Running>>,
                 <<WithA(PaymentRow(1, 1051)), Lapsed>>} :
       payments = st[1] /\ subs = st[2]
  /\ InitCommon

NextStatus ==
  \/ \E r \in Notifications : ReceiveSeq(r)
  \/ Step(1)
  \/ \E u \in UserIds : StatusCall(u)
  \/ StatusQuery
  \/ StatusCacheWrite
  \/ Quiet /\ stq.pc \in {"idle", "returned"} /\ Tick
  \/ Quiet /\ stq.pc \in {"idle", "returned"} /\ Midnight

\* The webhook process handles deliveries one after another while the bot
\* process answers status commands, step by step.
SpecStatus == InitStatus /\ [][NextStatus]_vars

\* what FindActiveSubscription is to return for a user
ExpectedActive(telegram_id) ==
  IF ActiveNow(telegram_id) = {} THEN {NoSnap}
  ELSE {Snapshot(k) : k \in ActiveNow(telegram_id)}

\* C32: whenever get_active_subscription takes its answer from the cache
\* or from a store that answers, the answer is the user's active row with
\* the latest end_date >= now as stored at that moment, or none when the
\* user has no such row.
C32_ReturnsLatestActiveOrNone ==
  [][(stq' # stq /\ ~stq'.failed) =>
       /\ (stq.pc \in {"idle", "returned", "query"} /\ stq'.pc = "returned")
            => stq'.result \in ExpectedActive(stq'.user)
       /\ stq'.pc = "cache_write" => stq'.row \in ExpectedActive(stq'.user)
    ]_vars

\* C36: with no call failing, a status query that starts after the
\* webhook handler has returned and is answered from the cache returns the
\* end_date the store holds for that subscription.
C36_NoStaleSnapshotAfterUpsert ==
  [][(/\ stq' # stq /\ stq.pc \in {"idle", "returned"}
      /\ stq'.pc = "returned" /\ stq'.cached
      /\ Quiet /\ faults = 0) =>
       stq'.result.end_date = subs[stq'.result.id].end_date
    ]_vars

\* --------------------------------------------------------- the rate limit
\* bot.py:149-156 rate_limit_check up to the read of the counter: without
\* a cache, or when the read raises (bot.py:168-170), the command is
\* allowed; a counter at the limit denies it.
RateCall ==
  /\ rl.pc = "idle"
  /\ \E ok \in CacheOutcomes :
       /\ faults' = faults + Failed(ok)
       /\ rl' = IF ~cacheOn \/ ~ok THEN [rl EXCEPT !.result = "allowed"]
                ELSE IF rl.val = 0 THEN [rl EXCEPT !.pc = "setex", !.result = "none"]
                ELSE IF rl.val >= RATE_LIMIT_COMMANDS THEN [rl EXCEPT !.result = "denied"]
                ELSE [rl EXCEPT !.pc = "incr", !.count = rl.val, !.result = "none"]
  /\ UNCHANGED <<config, snd, sq, hl, vr, stq, now, store, ledger, subCache, outbox, th,
                 last, answered, deliveries, ghosts>>

\* bot.py:158-160 no counter was read: the key is set to 1 with an expiry
\* of 60 seconds.
RateSetex ==
  /\ rl.pc = "setex"
  /\ \E ok \in CacheOutcomes :
       /\ faults' = faults + Failed(ok)
       /\ rl' = IF ok THEN [rl EXCEPT !.pc = "idle", !.val = 1, !.expires = TRUE,
                                        !.result = "allowed"]
                ELSE [rl EXCEPT !.pc = "idle", !.result = "allowed"]
  /\ UNCHANGED <<config, snd, sq, hl, vr, stq, now, store, ledger, subCache, outbox, th,
                 last, answered, deliveries, ghosts>>

\* bot.py:162-167 a counter below the limit was read: cache.incr.  INCR
\* leaves the expiry of an existing key alone and creates a missing key
\* as 1 without an expiry.
RateIncr ==
  /\ rl.pc = "incr"
  /\ \E ok \in CacheOutcomes :
       /\ faults' = faults + Failed(ok)
       /\ rl' = IF ok THEN [rl EXCEPT !.pc = "idle", !.val = rl.val + 1, !.result = "allowed"]
                ELSE [rl EXCEPT !.pc = "idle", !.result = "allowed"]
  /\ UNCHANGED <<config, snd, sq, hl, vr, stq, now, store, ledger, subCache, outbox, th,
                 last, answered, deliveries, ghosts>>

\* The 60 seconds of the key elapse: the cache drops a key that has an
\* expiry.
RateExpire ==
  /\ rl.val > 0 /\ rl.expires
  /\ rl.windows < MaxWindows
  /\ rl' = [rl EXCEPT !.val = 0, !.expires = FALSE, !.windows = rl.windows + 1]
  /\ UNCHANGED <<config, snd, sq, hl, vr, stq, now, store, ledger, subCache, outbox, th,
                 last, answered, deliveries, faults, ghosts>>

\* A deployment with a cache and a user sending commands.
InitRate ==
  /\ secret = ProcessorKey
  /\ cacheOn = TRUE
  /\ processed_webhooks = [ids |-> {}, others |-> 0]
  /\ payments = [i \in Invoices |-> NoRow]
  /\ subs = <<>>
  /\ InitCommon

NextRate == RateCall \/ RateSetex \/ RateIncr \/ RateExpire

\* One user's commands passing rate_limit_check while time passes.
SpecRate == InitRate /\ [][NextRate]_vars

\* C39: whenever the rate-limit key of a user exists it has an expiry.
C39_RateKeyAlwaysExpires ==
  rl.val > 0 => rl.expires

====
